---- MODULE Spec2Model ----
(***************************************************************************)
(* Model of src/app.py: a Streamlit page that appends transactions to a    *)
(* Google-Sheets worksheet and renders a monthly summary over the rows.    *)
(*                                                                         *)
(* Text is modelled as a sequence of one-character strings, so that        *)
(* strip(), isoformat(), "%.2f", to_datetime and to_numeric are computed   *)
(* character by character.  Money is counted in cents.                     *)
(***************************************************************************)
EXTENDS Integers, Sequences, FiniteSets, TLC

VARIABLES
    sheet,        \* the worksheet's data rows (below the header), in order
    cache,        \* st.cache_data entry of load_transactions_df: <<>> or <<df>>
    selIdx,       \* position chosen in the "Account" selectbox (0: not rendered)
    month_picker, \* value of the "Month" date_input (<<>>: not rendered)
    page,         \* what the last script run rendered
    blankIdx      \* history: sheet positions submitted with an empty account field

vars == <<sheet, cache, selIdx, month_picker, page, blankIdx>>

\* ---------------------------------------------------------------- bounds
\* Most rows the worksheet holds in the model.
MaxRows == 2

\* head(200) of the recent list, scaled down so that MaxRows rows overflow it.
HeadLimit == 2

\* ---------------------------------------------------------------- text
Digits == <<"0", "1", "2", "3", "4", "5", "6", "7", "8", "9">>

IsDigit(c) == \E i \in 1..10 : Digits[i] = c

DigitVal(c) == (CHOOSE i \in 1..10 : Digits[i] = c) - 1

DigitChar(n) == Digits[n + 1]

\* The characters of the model's account names, in code-point order.
CharOrder == <<" ", "-", "A", "B", "S", "c", "e", "l", "t">>

Ord(c) == CHOOSE i \in 1..Len(CharOrder) : CharOrder[i] = c

\* Python's str < str: lexicographic by code point, a proper prefix first.
RECURSIVE StrLess(_, _)
StrLess(s, t) ==
    IF t = <<>> THEN FALSE
    ELSE IF s = <<>> THEN TRUE
    ELSE IF Head(s) = Head(t) THEN StrLess(Tail(s), Tail(t))
    ELSE Ord(Head(s)) < Ord(Head(t))

RECURSIVE LStrip(_)
LStrip(s) == IF s # <<>> /\ Head(s) = " " THEN LStrip(Tail(s)) ELSE s

RECURSIVE RStrip(_)
RStrip(s) ==
    IF s # <<>> /\ s[Len(s)] = " " THEN RStrip(SubSeq(s, 1, Len(s) - 1)) ELSE s

\* str.strip()
Strip(s) == RStrip(LStrip(s))

\* Decimal digits of a natural number, most significant first.
RECURSIVE NatStr(_)
NatStr(n) ==
    IF n < 10 THEN <<DigitChar(n)>> ELSE NatStr(n \div 10) \o <<DigitChar(n % 10)>>

\* The number a non-empty digit string denotes.
RECURSIVE NatVal(_)
NatVal(s) ==
    IF s = <<>> THEN 0 ELSE 10 * NatVal(SubSeq(s, 1, Len(s) - 1)) + DigitVal(s[Len(s)])

AllDigits(s) == s # <<>> /\ \A i \in 1..Len(s) : IsDigit(s[i])

Pad2(n) == <<DigitChar(n \div 10), DigitChar(n % 10)>>

Pad4(n) == <<DigitChar(n \div 1000), DigitChar((n \div 100) % 10),
             DigitChar((n \div 10) % 10), DigitChar(n % 10)>>

\* ---------------------------------------------------------------- dates
\* A datetime.date is <<year, month, day>>; NaT (no date) is <<>>.
NaT == <<>>

IsLeap(y) == (y % 4 = 0 /\ y % 100 # 0) \/ y % 400 = 0

DaysInMonth(y, m) ==
    IF m = 2 THEN (IF IsLeap(y) THEN 29 ELSE 28)
    ELSE IF m \in {4, 6, 9, 11} THEN 30 ELSE 31

\* date.isoformat(): YYYY-MM-DD
isoformat(d) == Pad4(d[1]) \o <<"-">> \o Pad2(d[2]) \o <<"-">> \o Pad2(d[3])

\* date < date
DateLess(a, b) ==
    \/ a[1] < b[1]
    \/ a[1] = b[1] /\ a[2] < b[2]
    \/ a[1] = b[1] /\ a[2] = b[2] /\ a[3] < b[3]

\* ---------------------------------------------------------------- store
\* The header row written when the worksheet is created.
Header == <<"txn_date", "type", "amount", "payment_mode", "description",
            "account", "sub_account", "created_at">>

Col(name) == CHOOSE i \in 1..Len(Header) : Header[i] = name

\* A missing value (NaN) in a DataFrame cell.
NaN == <<"NaN">>

\* get_as_dataframe hands an empty worksheet cell over as NaN.
ReadCell(s) == IF s = <<>> THEN NaN ELSE s

\* get_as_dataframe(worksheet, header=0): one frame row per data row, labelled
\* by its position, its cells under the header's column names.
get_as_dataframe(rows) ==
    [i \in 1..Len(rows) |->
        [index        |-> i,
         txn_date     |-> ReadCell(rows[i][Col("txn_date")]),
         type         |-> ReadCell(rows[i][Col("type")]),
         amount       |-> ReadCell(rows[i][Col("amount")]),
         payment_mode |-> ReadCell(rows[i][Col("payment_mode")]),
         description  |-> ReadCell(rows[i][Col("description")]),
         account      |-> ReadCell(rows[i][Col("account")]),
         sub_account  |-> ReadCell(rows[i][Col("sub_account")]),
         created_at   |-> ReadCell(rows[i][Col("created_at")])]]

\* The row survives df.dropna(how="all"): some cell holds a value.
NotAllNaN(r) ==
    \/ r.txn_date # NaN \/ r.type # NaN \/ r.amount # NaN \/ r.payment_mode # NaN
    \/ r.description # NaN \/ r.account # NaN \/ r.sub_account # NaN
    \/ r.created_at # NaN

dropna(frame) == SelectSeq(frame, NotAllNaN)

\* pd.to_datetime(cell, errors="coerce").dt.date on the model's cells, which
\* are ISO dates or no dates at all: YYYY-MM-DD naming a calendar day gives
\* the date, everything else (NaN included) gives NaT.
to_datetime(c) ==
    IF /\ Len(c) = 10
       /\ c[5] = "-" /\ c[8] = "-"
       /\ AllDigits(SubSeq(c, 1, 4)) /\ AllDigits(SubSeq(c, 6, 7))
       /\ AllDigits(SubSeq(c, 9, 10))
    THEN LET y == NatVal(SubSeq(c, 1, 4))
             m == NatVal(SubSeq(c, 6, 7))
             d == NatVal(SubSeq(c, 9, 10))
         IN  IF y >= 1 /\ m \in 1..12 /\ d >= 1 /\ d <= DaysInMonth(y, m)
             THEN <<y, m, d>> ELSE NaT
    ELSE NaT

\* Cents of an unsigned decimal numeral with at most two fraction digits;
\* -1 when the text is no such numeral.
Cents(c) ==
    LET dots == {i \in 1..Len(c) : c[i] = "."}
    IN  IF dots = {} THEN (IF AllDigits(c) THEN 100 * NatVal(c) ELSE -1)
        ELSE LET p    == CHOOSE i \in dots : TRUE
                 int  == SubSeq(c, 1, p - 1)
                 frac == SubSeq(c, p + 1, Len(c))
             IN  IF Cardinality(dots) = 1 /\ AllDigits(int) /\ AllDigits(frac)
                    /\ Len(frac) <= 2
                 THEN 100 * NatVal(int)
                      + (IF Len(frac) = 1 THEN 10 * NatVal(frac) ELSE NatVal(frac))
                 ELSE -1

\* pd.to_numeric(cell, errors="coerce") then fillna(0.0), in cents: a decimal
\* numeral (optionally signed) gives its value, everything else gives 0.
to_numeric(c) ==
    IF c # <<>> /\ Head(c) = "-"
    THEN (IF Cents(Tail(c)) >= 0 THEN 0 - Cents(Tail(c)) ELSE 0)
    ELSE (IF Cents(c) >= 0 THEN Cents(c) ELSE 0)

\* The body of load_transactions_df: read, drop empty rows, fix the dtypes.
ReadFrame(rows) ==
    LET kept == dropna(get_as_dataframe(rows))
    IN  [i \in 1..Len(kept) |->
            [kept[i] EXCEPT !.txn_date = to_datetime(@), !.amount = to_numeric(@)]]

\* @st.cache_data(ttl=30) around load_transactions_df: a live entry is
\* returned as it is, otherwise the worksheet is read and the result kept.
load_transactions_df(c, rows) ==
    IF c # <<>> THEN [df |-> c[1], cache |-> c]
    ELSE LET fresh == ReadFrame(rows) IN [df |-> fresh, cache |-> <<fresh>>]

\* Mutant of append_transaction_row: the row goes above the first one.
append_at_top(rows, row_values, storeOk) ==
    IF storeOk THEN [rows |-> <<row_values>> \o rows, raised |-> FALSE]
    ELSE [rows |-> rows, raised |-> TRUE]

\* Mutant of append_transaction_row: a failure of the worksheet is swallowed.
append_swallowing_error(rows, row_values, storeOk) ==
    [rows |-> IF storeOk THEN Append(rows, row_values) ELSE rows, raised |-> FALSE]

\* worksheet.append_row(row_values): the row goes below the last one, or the
\* call raises and the worksheet is as it was.
append_transaction_row(rows, row_values, storeOk) ==
    IF storeOk THEN [rows |-> Append(rows, row_values), raised |-> FALSE]
    ELSE [rows |-> rows, raised |-> TRUE]

\* ---------------------------------------------------------------- form
credit == <<"c", "r", "e", "d", "i", "t">>

debit == <<"d", "e", "b", "i", "t">>

\* The string the submit handler falls back to: "-- Select --".
SelectLabel == <<"-", "-", " ", "S", "e", "l", "e", "c", "t", " ", "-", "-">>

\* The first entry of the Account selectbox: "-- All --".
AllLabel == <<"-", "-", " ", "A", "l", "l", " ", "-", "-">>

\* account_choice.strip() or ("-- Select --" if account_choice == "" else "")
account(account_choice) ==
    IF Strip(account_choice) # <<>> THEN Strip(account_choice)
    ELSE IF account_choice = <<>> THEN SelectLabel ELSE <<>>

\* f"{amount:.2f}" of a non-negative amount held in cents.
Format2f(amount) == NatStr(amount \div 100) \o <<".">> \o Pad2(amount % 100)

\* datetime.isoformat() of a UTC instant <<y, m, d, H, M, S>> (microsecond 0).
created_at(now) ==
    isoformat(<<now[1], now[2], now[3]>>) \o <<"T">> \o Pad2(now[4]) \o <<":">>
        \o Pad2(now[5]) \o <<":">> \o Pad2(now[6])

\* The list the submit handler builds, in the header's order.
row(f, now) ==
    <<isoformat(f.txn_date), f.txn_type, Format2f(f.amount), f.payment_mode,
      f.description, account(f.account_choice), f.sub_account, created_at(now)>>

\* Mutant of cache_clear: the entry stays.
cache_kept(c) == c

\* st.cache_data.clear(): every cached entry is dropped.
cache_clear(c) == <<>>

\* ---------------------------------------------------------------- summary
\* Mutant of empty: the frame is never taken for empty.
never_empty(df) == FALSE

\* df.empty
empty(df) == df = <<>>

RECURSIVE SortedStrings(_)
SortedStrings(S) ==
    IF S = {} THEN <<>>
    ELSE LET m == CHOOSE x \in S : \A y \in S \ {x} : StrLess(x, y)
         IN  <<m>> \o SortedStrings(S \ {m})

\* sorted(df["account"].dropna().unique().tolist())
accounts(df) ==
    SortedStrings({df[i].account : i \in {j \in 1..Len(df) : df[j].account # NaN}})

\* The options of st.selectbox("Account", ["-- All --"] + accounts).
AccountOptions(df) == <<AllLabel>> \o accounts(df)

\* month_picker.replace(day=1)
first_day(picked) == <<picked[1], picked[2], 1>>

\* d + relativedelta(months=1): the month moves on, the year with it after
\* December, and the day is clipped to the new month's length.
AddOneMonth(d) ==
    LET y == IF d[2] + 1 > 12 THEN d[1] + 1 ELSE d[1]
        m == IF d[2] + 1 > 12 THEN d[2] + 1 - 12 ELSE d[2] + 1
    IN  <<y, m, IF d[3] > DaysInMonth(y, m) THEN DaysInMonth(y, m) ELSE d[3]>>

\* Mutant of next_month: December is followed by January of the same year.
next_month_same_year(first) == <<first[1], (first[2] % 12) + 1, 1>>

\* (first_day + relativedelta(months=1)).replace(day=1)
next_month(first) == <<AddOneMonth(first)[1], AddOneMonth(first)[2], 1>>

\* df if sel_account == "-- All --" else df[df["account"] == sel_account]
df_account(df, sel_account) ==
    LET Same(r) == r.account = sel_account
    IN  IF sel_account = AllLabel THEN df ELSE SelectSeq(df, Same)

\* Mutant of ColLess: a missing date counts as before every date.
ColLess_missing_first(x, d) == x = NaT \/ DateLess(x, d)

\* column < date, element by element: a missing date compares False.
ColLess(x, d) == x # NaT /\ DateLess(x, d)

\* column >= date, element by element: a missing date compares False.
ColGeq(x, d) == x # NaT /\ ~DateLess(x, d)

\* df_account[df_account["txn_date"] < first_day]
df_before(dfa, first) ==
    LET Test(r) == ColLess(r.txn_date, first)
    IN  SelectSeq(dfa, Test)

\* Mutant of df_month: the first day of the next month is let in.
df_month_through_next(dfa, first, next) ==
    LET Test(r) == ColGeq(r.txn_date, first) /\ r.txn_date # NaT
                   /\ ~DateLess(next, r.txn_date)
    IN  SelectSeq(dfa, Test)

\* df_account[(txn_date >= first_day) & (txn_date < next_month)]
df_month(dfa, first, next) ==
    LET Test(r) == ColGeq(r.txn_date, first) /\ ColLess(r.txn_date, next)
    IN  SelectSeq(dfa, Test)

\* float(r["amount"]) if r["type"] == "credit" else -float(r["amount"])
signed(r) == IF r.type = credit THEN r.amount ELSE 0 - r.amount

RECURSIVE SumSigned(_)
SumSigned(frame) ==
    IF frame = <<>> THEN 0 ELSE signed(Head(frame)) + SumSigned(Tail(frame))

\* frame["signed"].sum() if not frame.empty else 0.0
carry_forward(before) == IF before # <<>> THEN SumSigned(before) ELSE 0

month_net(inMonth) == IF inMonth # <<>> THEN SumSigned(inMonth) ELSE 0

new_balance(cf, mn) == cf + mn

\* The three metrics of one run, in cents.
Metrics(df, sel_account, picked) ==
    LET first == first_day(picked)
        dfa   == df_account(df, sel_account)
        cf    == carry_forward(df_before(dfa, first))
        mn    == month_net(df_month(dfa, first, next_month(first)))
    IN  <<cf, mn, new_balance(cf, mn)>>

\* The positions of frame whose rows hold the latest date among positions S.
Latest(frame, S) ==
    {i \in S : \A j \in S : ~DateLess(frame[i].txn_date, frame[j].txn_date)}

\* Every order of positions S with the later date first.
RECURSIVE Descending(_, _)
Descending(frame, S) ==
    IF S = {} THEN {<<>>}
    ELSE UNION {{<<i>> \o rest : rest \in Descending(frame, S \ {i})} :
                    i \in Latest(frame, S)}

\* Positions S in increasing order.
RECURSIVE Ascending(_)
Ascending(S) ==
    IF S = {} THEN <<>>
    ELSE LET m == CHOOSE i \in S : \A j \in S : i <= j
         IN  <<m>> \o Ascending(S \ {m})

\* Mutant of sort_values: the earliest date first.
sort_values_ascending(df) ==
    LET dated == {i \in 1..Len(df) : df[i].txn_date # NaT}
        nat   == Ascending((1..Len(df)) \ dated)
    IN  {[k \in 1..Len(df) |->
             df[([n \in 1..Len(p) |-> p[Len(p) + 1 - n]] \o nat)[k]]] :
            p \in Descending(df, dated)}

\* df.sort_values(by=["txn_date"], ascending=False): the rows with a date come
\* first, latest date first, and the rows without one follow in frame order.
\* The default kind is quicksort, which is not stable: rows with the same date
\* come in any order.
sort_values(df) ==
    LET dated == {i \in 1..Len(df) : df[i].txn_date # NaT}
        nat   == Ascending((1..Len(df)) \ dated)
    IN  {[k \in 1..Len(df) |-> df[(p \o nat)[k]]] : p \in Descending(df, dated)}

\* frame.head(n)
head(frame, n) == SubSeq(frame, 1, IF Len(frame) < n THEN Len(frame) ELSE n)

\* ---------------------------------------------------------------- inputs
\* datetime.utcnow() at a submit.
Instants == {<<2024, 2, 1, 9, 30, 0>>}

\* What the user may enter in the form before pressing Save.
Forms ==
    { [txn_date |-> <<2024, 1, 15>>, txn_type |-> credit, amount |-> 10000,
       payment_mode |-> <<"c", "a", "s", "h">>, account_choice |-> <<"A">>,
       sub_account |-> <<"s">>, description |-> <<"x">>],
      [txn_date |-> <<2024, 2, 10>>, txn_type |-> debit, amount |-> 3000,
       payment_mode |-> <<"b", "a", "n", "k">>, account_choice |-> <<" ", "B", " ">>,
       sub_account |-> <<>>, description |-> <<>>],
      [txn_date |-> <<2024, 2, 10>>, txn_type |-> credit, amount |-> 500,
       payment_mode |-> <<"u", "p", "i">>, account_choice |-> <<>>,
       sub_account |-> <<>>, description |-> <<"x">>],
      [txn_date |-> <<2023, 12, 31>>, txn_type |-> debit, amount |-> 3000,
       payment_mode |-> <<"c", "a", "r", "d">>, account_choice |-> <<" ">>,
       sub_account |-> <<>>, description |-> <<>>],
      [txn_date |-> <<2024, 1, 1>>, txn_type |-> credit, amount |-> 500,
       payment_mode |-> <<"c", "a", "s", "h">>, account_choice |-> AllLabel,
       sub_account |-> <<>>, description |-> <<>>] }

\* Dates the user may pick in the Month input (and date.today(), its default).
PickerDates == {<<2023, 12, 15>>, <<2024, 2, 29>>}

\* date.today() where the run reads it: the Month input's default is used
\* only when the input holds no value from an earlier run.
Todays(picked) == IF picked = NaT THEN PickerDates ELSE {picked}

\* Rows a worksheet edited by hand may hold that the form cannot write.
NoDayRow ==
    <<<<"2", "0", "2", "4", "-", "0", "2", "-", "3", "0">>, credit,
      <<"1", "0", "0", ".", "0", "0">>, <<"c", "a", "s", "h">>, <<>>,
      <<"A">>, <<>>, <<>> >>

TransferRow ==
    <<<<"2", "0", "2", "3", "-", "1", "1", "-", "3", "0">>,
      <<"t", "r", "a", "n", "s", "f", "e", "r">>,
      <<"3", "0", ".", "0", "0">>, <<"b", "a", "n", "k">>, <<>>,
      <<"B">>, <<>>, <<>> >>

NoAmountRow == <<<<>>, debit, <<"a", "b", "c">>, <<>>, <<>>, <<>>, <<>>, <<>> >>

EmptyRow == <<<<>>, <<>>, <<>>, <<>>, <<>>, <<>>, <<>>, <<>> >>

\* A row as the form writes it for account A.
Written(d, t, a) ==
    row([txn_date |-> d, txn_type |-> t, amount |-> a,
         payment_mode |-> <<"c", "a", "s", "h">>, account_choice |-> <<"A">>,
         sub_account |-> <<>>, description |-> <<>>],
        <<2024, 2, 1, 9, 30, 0>>)

\* What the worksheet may hold when the page is first opened.
InitSheets ==
    { <<>>, <<NoDayRow>>, <<TransferRow>>, <<NoAmountRow>>, <<EmptyRow>>,
      <<Written(<<2024, 1, 15>>, credit, 10000), Written(<<2024, 2, 10>>, debit, 3000),
        Written(<<2024, 2, 20>>, credit, 500)>>,
      <<NoDayRow, Written(<<2024, 2, 10>>, debit, 3000),
        Written(<<2024, 2, 10>>, credit, 500)>>,
      <<TransferRow, Written(<<2023, 12, 31>>, credit, 10000),
        Written(<<2024, 1, 1>>, debit, 3000)>> }

\* ---------------------------------------------------------------- the page
\* Nothing rendered below the form.
BlankPage ==
    [cacheHit |-> FALSE, failed |-> FALSE, success |-> FALSE, error |-> FALSE,
     noData |-> FALSE, summary |-> FALSE, df |-> <<>>, options |-> <<>>,
     metrics |-> <<>>, show_df |-> <<>>]

\* The Account option the user's choice stands for in this run: the position
\* chosen while the same options were shown, else the selectbox's default.
Chosen(idx, options) ==
    IF page.options = options /\ idx \in 1..Len(options) THEN idx ELSE 1

\* One run of the script, top to bottom: the states it may leave behind.
\* submitted: Save was pressed, with f in the form; storeOk: the worksheet
\* accepts the append; idx, picked: the widget values the run starts with;
\* today: date.today().
Run(submitted, f, now, storeOk, idx, picked, today) ==
    LET first   == load_transactions_df(cache, sheet)
        app     == IF submitted
                   THEN append_transaction_row(sheet, row(f, now), storeOk)
                   ELSE [rows |-> sheet, raised |-> FALSE]
        second  == load_transactions_df(
                       IF submitted THEN cache_clear(first.cache) ELSE first.cache,
                       app.rows)
        df      == second.df
        base    == [BlankPage EXCEPT !.cacheHit = (submitted /\ cache # <<>>),
                                     !.failed = (submitted /\ ~storeOk)]
        blanks  == IF submitted /\ Strip(f.account_choice) = <<>>
                   THEN blankIdx \cup {Len(app.rows)} ELSE blankIdx
        options == AccountOptions(df)
        i       == Chosen(idx, options)
        month   == IF picked = NaT THEN today ELSE picked
        metrics == Metrics(df, options[i], month)
    IN  IF app.raised
        THEN \* the exception ends the run at the append
             {[sheet |-> app.rows, cache |-> first.cache, selIdx |-> 0,
               month_picker |-> NaT, blankIdx |-> blankIdx,
               page |-> [base EXCEPT !.error = TRUE]]}
        ELSE IF empty(df)
        THEN {[sheet |-> app.rows, cache |-> second.cache, selIdx |-> 0,
               month_picker |-> NaT, blankIdx |-> blanks,
               page |-> [base EXCEPT !.success = submitted, !.noData = TRUE]]}
        ELSE {[sheet |-> app.rows, cache |-> second.cache, selIdx |-> i,
               month_picker |-> month, blankIdx |-> blanks,
               page |-> [base EXCEPT !.success = submitted,
                                     !.summary = TRUE,
                                     !.df      = df,
                                     !.options = options,
                                     !.metrics = metrics,
                                     !.show_df = head(sorted, HeadLimit)]] :
                 sorted \in sort_values(df)}

\* The run ends in state s.
Becomes(s) ==
    /\ sheet' = s.sheet
    /\ cache' = s.cache
    /\ selIdx' = s.selIdx
    /\ month_picker' = s.month_picker
    /\ page' = s.page
    /\ blankIdx' = s.blankIdx

\* ---------------------------------------------------------------- actions
Init ==
    /\ sheet \in InitSheets
    /\ cache = <<>>
    /\ selIdx = 0
    /\ month_picker = NaT
    /\ page = BlankPage
    /\ blankIdx = {}

AnyForm == CHOOSE f \in Forms : TRUE

AnyInstant == CHOOSE t \in Instants : TRUE

\* The page is opened or reloaded with the widgets as they are.
Refresh ==
    \E today \in Todays(month_picker) :
        \E s \in Run(FALSE, AnyForm, AnyInstant, TRUE, selIdx, month_picker, today) :
            Becomes(s)

\* The user picks another entry of the Account selectbox.
ChangeAccount ==
    /\ page.summary
    /\ \E i \in (1..Len(page.options)) \ {selIdx} :
         \E s \in Run(FALSE, AnyForm, AnyInstant, TRUE, i, month_picker, month_picker) :
             Becomes(s)

\* The user picks another date in the Month input.
ChangeMonth ==
    /\ page.summary
    /\ \E d \in PickerDates \ {month_picker} :
         \E s \in Run(FALSE, AnyForm, AnyInstant, TRUE, selIdx, d, d) :
             Becomes(s)

\* The user presses Save and the worksheet takes the row.
SubmitOk ==
    /\ Len(sheet) < MaxRows
    /\ \E f \in Forms, now \in Instants, today \in Todays(month_picker) :
         \E s \in Run(TRUE, f, now, TRUE, selIdx, month_picker, today) :
             Becomes(s)

\* The user presses Save and the append fails at the worksheet.
SubmitFail ==
    \E f \in Forms, now \in Instants :
        \E s \in Run(TRUE, f, now, FALSE, selIdx, month_picker, month_picker) :
            Becomes(s)

\* The cached frame reaches its ttl of 30 seconds.
TtlExpire ==
    /\ cache # <<>>
    /\ cache' = <<>>
    /\ UNCHANGED <<sheet, selIdx, month_picker, page, blankIdx>>

Next ==
    \/ Refresh
    \/ ChangeAccount
    \/ ChangeMonth
    \/ SubmitOk
    \/ SubmitFail
    \/ TtlExpire

Spec == Init /\ [][Next]_vars

\* ---------------------------------------------------------------- claims
\* The account filter of the page: the text of the chosen selectbox entry.
Label == page.options[selIdx]

\* The signed amount of a record: +amount for a credit, -amount otherwise.
Contribution(r) == IF r.type = credit THEN r.amount ELSE 0 - r.amount

\* The sum of the signed amounts of the records of frame at positions S.
RECURSIVE SumOver(_, _)
SumOver(frame, S) ==
    IF S = {} THEN 0
    ELSE LET i == CHOOSE j \in S : TRUE
         IN  Contribution(frame[i]) + SumOver(frame, S \ {i})

\* The positions of frame the filter lets through.
Filtered(frame, label) ==
    IF label = AllLabel THEN 1..Len(frame)
    ELSE {i \in 1..Len(frame) : frame[i].account = label}

HasDate(r) == r.txn_date # NaT

\* Calendar order by the number yyyymmdd.
DayNumber(d) == 10000 * d[1] + 100 * d[2] + d[3]

FirstDay(ref) == <<ref[1], ref[2], 1>>

NextMonthFirstDay(ref) ==
    IF ref[2] = 12 THEN <<ref[1] + 1, 1, 1>> ELSE <<ref[1], ref[2] + 1, 1>>

\* Positions among S dated before the reference month.
Before(frame, S, ref) ==
    {i \in S : /\ HasDate(frame[i])
               /\ DayNumber(frame[i].txn_date) < DayNumber(FirstDay(ref))}

\* Positions among S dated in the reference month.
InMonth(frame, S, ref) ==
    {i \in S : /\ HasDate(frame[i])
               /\ DayNumber(frame[i].txn_date) >= DayNumber(FirstDay(ref))
               /\ DayNumber(frame[i].txn_date) < DayNumber(NextMonthFirstDay(ref))}

\* Positions among S dated after the reference month.
After(frame, S, ref) ==
    {i \in S : /\ HasDate(frame[i])
               /\ DayNumber(frame[i].txn_date) >= DayNumber(NextMonthFirstDay(ref))}

\* C1: whenever the summary is rendered, carryForward is the sum of the signed
\* amounts of the filtered records dated before day 1 of the reference month,
\* monthNet the sum over those dated from that day up to, not including, day 1
\* of the following month (January 1 of the next year after December), and
\* newBalance their sum; an empty set sums to 0.
C1_Summary ==
    page.summary =>
        LET S  == Filtered(page.df, Label)
            cf == SumOver(page.df, Before(page.df, S, month_picker))
            mn == SumOver(page.df, InMonth(page.df, S, month_picker))
        IN  page.metrics = <<cf, mn, cf + mn>>

\* A December summary with a record of the month and one dated January 1 of
\* the next year, which stays out of the month's net.
C1_Witness ==
    /\ page.summary
    /\ month_picker[2] = 12
    /\ page.metrics[1] # 0
    /\ page.metrics[2] # 0
    /\ \E i \in Filtered(page.df, Label) :
         page.df[i].txn_date = <<month_picker[1] + 1, 1, 1>>

\* C2 as claimed: the signed sums over before, inMonth and after add up to the
\* signed sum over the whole account-filtered set, records without a date
\* included.
C2_PartitionAll ==
    page.summary =>
        LET S == Filtered(page.df, Label)
        IN  page.metrics[1] + page.metrics[2]
                + SumOver(page.df, After(page.df, S, month_picker))
            = SumOver(page.df, S)

\* C2 amended: the signed sums over before, inMonth and after add up to the
\* signed sum over the account-filtered records that have a date; a record
\* without a date is in none of the three parts.
C2_PartitionDated ==
    page.summary =>
        LET S == Filtered(page.df, Label)
        IN  page.metrics[1] + page.metrics[2]
                + SumOver(page.df, After(page.df, S, month_picker))
            = SumOver(page.df, {i \in S : HasDate(page.df[i])})

\* A summary over records before, in and after the month.
C2_Witness ==
    /\ page.summary
    /\ LET S == Filtered(page.df, Label)
       IN  /\ Before(page.df, S, month_picker) # {}
           /\ InMonth(page.df, S, month_picker) # {}
           /\ After(page.df, S, month_picker) # {}
           /\ SumOver(page.df, After(page.df, S, month_picker)) # 0

\* The records of a frame; the index label keeps equal rows apart.
Records(frame) == {frame[i] : i \in 1..Len(frame)}

\* The frame without the records at positions S.
RECURSIVE Without(_, _)
Without(frame, S) ==
    IF frame = <<>> THEN <<>>
    ELSE Without(SubSeq(frame, 1, Len(frame) - 1), S)
         \o (IF Len(frame) \in S THEN <<>> ELSE <<frame[Len(frame)]>>)

\* C3 as claimed: a row submitted with a blank account field is counted under
\* "-- All --", is let through by no other entry of the account filter, and
\* adds no entry to the filter's account list.
C3_BlankExcluded ==
    page.summary =>
        \A b \in blankIdx :
            \A i \in {j \in 1..Len(page.df) : page.df[j].index = b} :
                /\ page.df[i] \in Records(df_account(page.df, AllLabel))
                /\ \A k \in 2..Len(page.options) :
                      page.df[i] \notin Records(df_account(page.df, page.options[k]))
                /\ accounts(page.df) = accounts(Without(page.df, {i}))

\* C4 as claimed: a record without a date adds to neither carryForward nor
\* monthNet, and is in the recent list, after every record that has a date.
C4_NoDateListed ==
    page.summary =>
        /\ page.metrics =
               Metrics(Without(page.df, {i \in 1..Len(page.df) : ~HasDate(page.df[i])}),
                       Label, month_picker)
        /\ \A r \in Records(page.df) :
              ~HasDate(r) =>
                  \E k \in 1..Len(page.show_df) :
                      /\ page.show_df[k] = r
                      /\ \A q \in Records(page.df) :
                            HasDate(q) =>
                                \E l \in 1..(k - 1) : page.show_df[l] = q

\* C4 amended: a record without a date adds to neither carryForward nor
\* monthNet; in the recent list no record with a date comes after one without,
\* the list leaves out a record with a date only when it holds no record
\* without one, and a store of at most HeadLimit records is listed whole.
C4_NoDateLast ==
    page.summary =>
        /\ page.metrics =
               Metrics(Without(page.df, {i \in 1..Len(page.df) : ~HasDate(page.df[i])}),
                       Label, month_picker)
        /\ \A k, l \in 1..Len(page.show_df) :
              (k < l /\ ~HasDate(page.show_df[k])) => ~HasDate(page.show_df[l])
        /\ (\E q \in Records(page.df) \ Records(page.show_df) : HasDate(q))
              => \A k \in 1..Len(page.show_df) : HasDate(page.show_df[k])
        /\ Len(page.df) <= HeadLimit => Records(page.show_df) = Records(page.df)

\* A summary over a filtered set that holds a record without a date and with
\* an amount, listed after a record that has a date.
C4_Witness ==
    /\ page.summary
    /\ \E i \in Filtered(page.df, Label) :
         ~HasDate(page.df[i]) /\ page.df[i].amount # 0
    /\ page.metrics[3] # 0
    /\ Len(page.show_df) = 2
    /\ HasDate(page.show_df[1])
    /\ ~HasDate(page.show_df[2])

\* C5: a run whose submit appended a row renders the summary, the account list
\* and the recent list from a frame read after the append: the frame is the
\* worksheet as it now is, appended row included.
C5_FreshAfterSubmit ==
    page.success =>
        /\ page.summary
        /\ page.df = ReadFrame(sheet)
        /\ \E i \in 1..Len(page.df) : page.df[i].index = Len(sheet)
        /\ page.options = AccountOptions(ReadFrame(sheet))
        /\ page.metrics = Metrics(ReadFrame(sheet), Label, month_picker)
        /\ Records(page.show_df) \subseteq Records(ReadFrame(sheet))

\* A successful submit in a run that found a live cache entry on entry, into
\* a worksheet that already held a row.
C5_Witness ==
    /\ page.success
    /\ page.cacheHit
    /\ Len(sheet) >= 2
    /\ page.summary

\* What a submit of form f at instant now must leave in row r: 8 cells in the
\* header's order, the date and the amount reading back as entered.
IsRowOf(r, f, now) ==
    /\ Len(r) = Len(Header)
    /\ to_datetime(r[Col("txn_date")]) = f.txn_date
    /\ r[Col("type")] = f.txn_type
    /\ to_numeric(r[Col("amount")]) = f.amount
    /\ r[Col("payment_mode")] = f.payment_mode
    /\ r[Col("description")] = f.description
    /\ r[Col("account")] \in {Strip(f.account_choice), SelectLabel}
    /\ r[Col("sub_account")] = f.sub_account
    /\ r[Col("created_at")] = created_at(now)

\* C6: every step leaves the rows of the worksheet as they are, and a step
\* that adds anything is a successful submit that adds one row of 8 cells in
\* header order below them.
C6_AppendOnly ==
    [][\/ sheet' = sheet
       \/ /\ page'.success
          /\ Len(sheet') = Len(sheet) + 1
          /\ SubSeq(sheet', 1, Len(sheet)) = sheet
          /\ \E f \in Forms, now \in Instants : IsRowOf(sheet'[Len(sheet')], f, now)]_vars

\* Two submits have each added a row below the one before.
C6_Witness ==
    /\ page.success
    /\ Len(sheet) = 2
    /\ sheet[1] # sheet[2]
    /\ \E f \in Forms, now \in Instants : IsRowOf(sheet[2], f, now)

\* The store holds no record (rows of empty cells aside).
StoreEmpty == ReadFrame(sheet) = <<>>

\* C7 as claimed: when the summary's record set is empty, the store holding no
\* record or no record matching the chosen account, the summary is (0, 0, 0)
\* and the no-data signal is given.
C7_ZeroSummary ==
    ((page.noData \/ page.summary) /\
     (StoreEmpty \/ (page.summary /\ Filtered(page.df, Label) = {})))
        => (page.metrics = <<0, 0, 0>> /\ page.noData)

\* C7 amended: a run over a store without records gives the no-data signal
\* and renders no summary, account list or recent list; a run over a store
\* with records gives no such signal, and the account it filters by is one of
\* the store's, so its summary is over at least one record.
C7_NoDataOrMatch ==
    /\ (page.noData \/ page.summary) => (page.noData <=> StoreEmpty)
    /\ page.noData =>
          (~page.summary /\ page.metrics = <<>> /\ page.options = <<>>
              /\ page.show_df = <<>>)
    /\ page.summary =>
          (~page.noData /\ Filtered(page.df, Label) # {}
              /\ page.options = <<AllLabel>> \o accounts(page.df))

\* A run over a worksheet whose only row is empty.
C7_Witness ==
    /\ page.noData
    /\ sheet # <<>>

\* C8: a run whose append failed shows the error and nothing after it: the
\* worksheet keeps its rows, there is no success message and no summary.
C8_FailedAppendHalts ==
    [][page'.failed =>
          /\ sheet' = sheet
          /\ page'.error
          /\ ~page'.success
          /\ ~page'.summary
          /\ ~page'.noData
          /\ page'.metrics = <<>>
          /\ page'.show_df = <<>>]_vars

\* A failed append into a worksheet that holds rows.
C8_Witness ==
    /\ page.failed
    /\ page.error
    /\ ReadFrame(sheet) # <<>>

\* Record r must come before record q in the recent list: a date before
\* none, the later date first, and records without a date in store order.
MustPrecede(r, q) ==
    \/ HasDate(r) /\ ~HasDate(q)
    \/ HasDate(r) /\ HasDate(q) /\ DayNumber(r.txn_date) > DayNumber(q.txn_date)
    \/ ~HasDate(r) /\ ~HasDate(q) /\ r.index < q.index

\* As MustPrecede, with equal dates in store order.
StablePrecede(r, q) ==
    \/ MustPrecede(r, q)
    \/ HasDate(r) /\ HasDate(q) /\ r.txn_date = q.txn_date /\ r.index < q.index

Shorter(n, m) == IF n < m THEN n ELSE m

\* C9 as claimed: the recent list is the records by descending date, those
\* without a date last, equal dates in store order, cut to HeadLimit entries.
C9_StableOrder ==
    page.summary =>
        /\ Len(page.show_df) = Shorter(HeadLimit, Len(page.df))
        /\ \A k \in 1..Len(page.show_df) :
              /\ page.show_df[k] \in Records(page.df)
              /\ Cardinality({q \in Records(page.df) :
                                 StablePrecede(q, page.show_df[k])}) = k - 1

\* C9 amended: the recent list is the records by descending date, those
\* without a date last in store order, records of equal date in any order,
\* cut to HeadLimit entries; it has min(HeadLimit, number of records) entries.
C9_Order ==
    page.summary =>
        /\ Len(page.show_df) = Shorter(HeadLimit, Len(page.df))
        /\ \A k \in 1..Len(page.show_df) : page.show_df[k] \in Records(page.df)
        /\ \A k, l \in 1..Len(page.show_df) :
              k < l => /\ page.show_df[k] # page.show_df[l]
                       /\ ~MustPrecede(page.show_df[l], page.show_df[k])
        /\ \A q \in Records(page.df) \ Records(page.show_df) :
              \A k \in 1..Len(page.show_df) : ~MustPrecede(q, page.show_df[k])

\* A list cut short, over records of which two share a date.
C9_Witness ==
    /\ page.summary
    /\ Len(page.df) > HeadLimit
    /\ Len(page.show_df) = HeadLimit
    /\ \E r, q \in Records(page.df) :
         r # q /\ HasDate(r) /\ r.txn_date = q.txn_date

\* C10 as claimed: choosing an account entry of the filter, whatever its text,
\* gives the summary over exactly the records of that account.
C10_ExactAccount ==
    (page.summary /\ selIdx > 1) =>
        LET S  == {i \in 1..Len(page.df) : page.df[i].account = Label}
            cf == SumOver(page.df, Before(page.df, S, month_picker))
            mn == SumOver(page.df, InMonth(page.df, S, month_picker))
        IN  page.metrics = <<cf, mn, cf + mn>>

====
